---- MODULE Spec2Model ----
(***************************************************************************)
(* Model of app.py, the Streamlit dashboard of electric vehicle            *)
(* registrations.  The script is re-executed from its first line on every  *)
(* interaction; what survives a run is the st.cache_data cache of          *)
(* load_data and the widgets' session state.  One action per section of    *)
(* the script, one per user interaction.                                   *)
(*                                                                         *)
(* Encoding.  A categorical value (Electric Vehicle Type, City, Make) is   *)
(* a positive integer whose numeric order is the lexicographic order of    *)
(* the name it stands for (type 1 = "Battery Electric Vehicle (BEV)",      *)
(* type 2 = "Plug-in Hybrid Electric Vehicle (PHEV)").  A cell of a        *)
(* numeric column of the CSV file is the sequence of its characters:       *)
(* 0..9 are the digits, Letter is any other character.  NaN is pandas'     *)
(* missing value.                                                          *)
(***************************************************************************)
EXTENDS Integers, Sequences, FiniteSets

VARIABLES
    source,         \* the CSV file: [readable, rows]
    cached,         \* st.cache_data holds an entry for load_data(path)
    cache,          \* the cached return value of load_data
    reads,          \* how many times pd.read_csv has run in this process
    ss,             \* the widgets' session state
    pc,             \* position of the current script run
    err,            \* the exception that ended the run, "" when none
    shown,          \* the elements the current run has put on the page
    df,             \* script variable df
    df_filtered,    \* script variable df_filtered
    city_counts,    \* script variable city_counts
    growth,         \* script variable growth
    type_counts,    \* script variable type_counts
    fig_box_type,   \* the traces of fig_box_type
    makes_counts    \* script variable makes_counts

vars == <<source, cached, cache, reads, ss, pc, err, shown, df, df_filtered,
          city_counts, growth, type_counts, fig_box_type, makes_counts>>

----------------------------------------------------------------------------
(* Bounds of the model and constants of the program *)

\* longest run of extra rows appended to the file
MaxTail == 2
\* attempts to read an unreadable file that the model follows
MaxReads == 2
\* the n of nlargest(n)
TopN == 10
\* pandas' missing value, what errors="coerce" and an empty cell give
NaN == -1
\* a character of a cell that is no digit
Letter == 10

----------------------------------------------------------------------------
(* The input files *)

Row(y, t, c, m, p, r) ==
    [year |-> y, type |-> t, city |-> c, make |-> m, msrp |-> p, range |-> r]

\* Fourteen rows, two of them without a valid Model Year (an empty cell, a
\* cell that is no number).  The twelve others are over eleven cities and
\* eleven makes: city 11 occurs twice, in the same year and late in the file,
\* make 10 occurs twice; the first row is of type 2.
Bulk ==
    << Row(<<2,0,2,1>>, 2, 1, 1, <<3,0>>, <<2,0>>),
       Row(<<2,0,2,0>>, 1, 2, 2, <<4,0>>, <<9,0>>),
       Row(<<2,0,2,0>>, 1, 3, 3, <<>>, <<8,0>>),
       Row(<<>>, 1, 12, 12, <<4,2>>, <<9,0>>),
       Row(<<2,0,2,2>>, 2, 4, 4, <<5,0>>, <<>>),
       Row(<<2,0,2,1>>, 1, 5, 5, <<>>, <<>>),
       Row(<<2,0,2,0>>, 1, 6, 6, <<4,5>>, <<7,0>>),
       Row(<<2,0,2,2>>, 1, 7, 7, <<Letter>>, <<6,0>>),
       Row(<<2,Letter,2,1>>, 2, 1, 2, <<3,0>>, <<2,0>>),
       Row(<<2,0,2,1>>, 2, 8, 8, <<>>, <<3,0>>),
       Row(<<2,0,2,0>>, 1, 9, 9, <<>>, <<Letter>>),
       Row(<<2,0,2,1>>, 1, 10, 10, <<6,0>>, <<9,5>>),
       Row(<<2,0,2,0>>, 1, 11, 10, <<>>, <<>>),
       Row(<<2,0,2,0>>, 1, 11, 11, <<3,5>>, <<8,5>>) >>

\* The rows a file may hold besides: valid ones, a row whose Model Year is
\* empty, rows with a missing type, city, make, price or range.
Palette ==
    { Row(<<2,0,2,0>>, 1, 1, 1, <<4,0>>, <<9,0>>),
      Row(<<2,0,2,1>>, 2, 12, 12, <<>>, <<3,0>>),
      Row(<<>>, 1, 12, 12, <<4,2>>, <<9,0>>),
      Row(<<2,0,2,1>>, 1, NaN, NaN, <<Letter>>, <<>>),
      Row(<<2,0,2,2>>, NaN, 12, 1, <<4,2>>, <<>>) }

RECURSIVE SeqsUpTo(_, _)
SeqsUpTo(S, n) ==
    IF n = 0 THEN { <<>> }
    ELSE LET shorter == SeqsUpTo(S, n - 1)
         IN  shorter \cup { Append(s, x) : s \in shorter, x \in S }

Files ==
    { [readable |-> TRUE, rows |-> head \o tail] :
          head \in { <<>>, Bulk }, tail \in SeqsUpTo(Palette, MaxTail) }
    \cup { [readable |-> FALSE, rows |-> <<>>] }

\* the options of the multiselects that the user clicks on
ClickCities == {1, 12}
ClickMakes == {1}

----------------------------------------------------------------------------
(* pandas *)

IsDigits(cell) == cell # <<>> /\ \A i \in 1..Len(cell) : cell[i] \in 0..9

RECURSIVE Decimal(_)
Decimal(cell) ==
    IF cell = <<>> THEN 0
    ELSE 10 * Decimal(SubSeq(cell, 1, Len(cell) - 1)) + cell[Len(cell)]

\* pd.to_numeric(column, errors="coerce"), one cell
ToNumeric(cell) == IF IsDigits(cell) THEN Decimal(cell) ELSE NaN

\* df.dropna(): drops the rows with a missing value in any numeric column
DropNa_AnyColumn(d) ==
    SelectSeq(d, LAMBDA r : r.year # NaN /\ r.msrp # NaN /\ r.range # NaN)

\* df.dropna(subset=["Model Year"])
DropNaYear(d) == SelectSeq(d, LAMBDA r : r.year # NaN)

Coerce(r) ==
    [r EXCEPT !.year = ToNumeric(@), !.msrp = ToNumeric(@), !.range = ToNumeric(@)]

\* the body of load_data, after read_csv
load_data(rows) == DropNaYear([i \in 1..Len(rows) |-> Coerce(rows[i])])

\* the columns
Year(d) == [i \in 1..Len(d) |-> d[i].year]
Type(d) == [i \in 1..Len(d) |-> d[i].type]
City(d) == [i \in 1..Len(d) |-> d[i].city]
Make(d) == [i \in 1..Len(d) |-> d[i].make]

Range(s) == { s[i] : i \in 1..Len(s) }

\* Series.dropna()
DropNa(col) == SelectSeq(col, LAMBDA v : v # NaN)

\* Series.unique(): the distinct values in order of first appearance
RECURSIVE Unique(_)
Unique(col) ==
    IF col = <<>> THEN <<>>
    ELSE LET front == SubSeq(col, 1, Len(col) - 1)
             last == col[Len(col)]
         IN  IF last \in Range(front) THEN Unique(front)
             ELSE Append(Unique(front), last)

SetMin(S) == CHOOSE x \in S : \A y \in S : x <= y
SetMax(S) == CHOOSE x \in S : \A y \in S : x >= y

\* sorted(iterable of values): ascending
RECURSIVE SortedSet(_)
SortedSet(S) ==
    IF S = {} THEN <<>>
    ELSE LET m == SetMin(S) IN <<m>> \o SortedSet(S \ {m})

sorted(col) == SortedSet(Range(col))

Count(col, v) == Cardinality({ i \in 1..Len(col) : col[i] = v })

\* inserts e after the entries of s whose count is >= e's: a stable
\* descending order
RECURSIVE InsertDesc(_, _)
InsertDesc(s, e) ==
    IF s = <<>> THEN <<e>>
    ELSE IF s[1][2] >= e[2] THEN <<s[1]>> \o InsertDesc(Tail(s), e)
         ELSE <<e>> \o s

RECURSIVE SortDesc(_)
SortDesc(s) ==
    IF s = <<>> THEN <<>>
    ELSE InsertDesc(SortDesc(SubSeq(s, 1, Len(s) - 1)), s[Len(s)])

\* Series.value_counts(): <<value, count>> of the non-missing values, by
\* descending count; equal counts keep the order of first appearance
value_counts(col) ==
    LET keys == Unique(DropNa(col))
    IN  SortDesc([i \in 1..Len(keys) |-> <<keys[i], Count(col, keys[i])>>])

\* Series.nsmallest(n): the n last of the descending order
nsmallest(s, n) ==
    LET o == SortDesc(s)
    IN  SubSeq(o, IF Len(o) < n THEN 1 ELSE Len(o) - n + 1, Len(o))

\* Series.nlargest(n), keep="first"
nlargest(s, n) ==
    LET o == SortDesc(s) IN SubSeq(o, 1, IF Len(o) < n THEN Len(o) ELSE n)

Index(s) == [i \in 1..Len(s) |-> s[i][1]]

PairLess(a, b) == a[1] < b[1] \/ (a[1] = b[1] /\ a[2] < b[2])

RECURSIVE SortedPairs(_)
SortedPairs(S) ==
    IF S = {} THEN <<>>
    ELSE LET m == CHOOSE x \in S : \A y \in S \ {x} : PairLess(x, y)
         IN  <<m>> \o SortedPairs(S \ {m})

\* d.groupby(["Model Year", "City"]).size().reset_index(name="Count"): one
\* row per key pair that occurs, keys ascending, missing keys left out
GroupSize(d) ==
    LET keys == SortedPairs({ <<d[i].year, d[i].city>> : i \in
                    { j \in 1..Len(d) : d[j].year # NaN /\ d[j].city # NaN } })
    IN  [k \in 1..Len(keys) |->
            [year |-> keys[k][1], city |-> keys[k][2],
             count |-> Cardinality({ i \in 1..Len(d) :
                          d[i].year = keys[k][1] /\ d[i].city = keys[k][2] })]]

----------------------------------------------------------------------------
(* The script's expressions *)

\* the mask with the upper end of the year range left out
Mask_StrictUpper(r, s) ==
    /\ r.year >= s.tahun_range[1]
    /\ r.year < s.tahun_range[2]
    /\ r.type \in s.selected_types

\* the mask of the first filter
Mask(r, s) ==
    /\ r.year >= s.tahun_range[1]
    /\ r.year <= s.tahun_range[2]
    /\ r.type \in s.selected_types

\* df_filtered as the script computes it, in up to three passes
ApplyFilter(d, s) ==
    LET f1 == SelectSeq(d, LAMBDA r : Mask(r, s))
        f2 == IF s.selected_cities # {}
              THEN SelectSeq(f1, LAMBDA r : r.city \in s.selected_cities)
              ELSE f1
    IN  IF s.selected_makes # {}
        THEN SelectSeq(f2, LAMBDA r : r.make \in s.selected_makes)
        ELSE f2

CityCounts(view) == nlargest(value_counts(City(view)), TopN)

MakesCounts(view) == nlargest(value_counts(Make(view)), TopN)

top10_cities_main(view) == Range(Index(nlargest(value_counts(City(view)), TopN)))

\* the grouping without the restriction to the top 10 cities
Growth_AllCities(view) == GroupSize(view)

Growth(view) ==
    GroupSize(SelectSeq(view, LAMBDA r : r.city \in top10_cities_main(view)))

\* the type counts reindexed by the selected types, 0 for a type without record
TypeCounts_Reindexed(view) ==
    LET names == SortedSet(ss.selected_types)
    IN  [k \in 1..Len(names) |-> <<names[k], Count(Type(view), names[k])>>]

\* the type counts taken over the records that have a price
TypeCounts_Priced(view) ==
    value_counts(Type(SelectSeq(view, LAMBDA r : r.msrp # NaN)))

TypeCounts(view) == value_counts(Type(view))

df_type_price(view) == SelectSeq(view, LAMBDA r : r.msrp # NaN)

\* the loop over the types in order of first appearance, without sorted()
BoxTraces_Unsorted(view) ==
    LET priced == df_type_price(view)
        names == Unique(Type(priced))
    IN  [k \in 1..Len(names) |->
            [name |-> names[k],
             y |-> LET rows == SelectSeq(priced, LAMBDA r : r.type = names[k])
                   IN  [i \in 1..Len(rows) |-> rows[i].msrp]]]

\* the traces added to fig_box_type by the loop over the sorted types
BoxTraces(view) ==
    LET priced == df_type_price(view)
        names == sorted(Unique(Type(priced)))
    IN  [k \in 1..Len(names) |->
            [name |-> names[k],
             y |-> LET rows == SelectSeq(priced, LAMBDA r : r.type = names[k])
                   IN  [i \in 1..Len(rows) |-> rows[i].msrp]]]

\* sorted() of strings mixed with a float NaN raises TypeError
SortRaises(col) == NaN \in Range(col) /\ Range(col) # {NaN}

all_types(d) == Range(DropNa(Type(d)))
all_cities(d) == Range(DropNa(City(d)))
all_makes(d) == Range(DropNa(Make(d)))

NoState ==
    [set |-> FALSE, tahun_range |-> <<0, 0>>, selected_types |-> {},
     selected_cities |-> {}, selected_makes |-> {}]

\* the widgets' defaults: the whole range, every type, no city, no make
Defaults(d) ==
    [set |-> TRUE,
     tahun_range |-> <<SetMin(Range(Year(d))), SetMax(Range(Year(d)))>>,
     selected_types |-> all_types(d),
     selected_cities |-> {}, selected_makes |-> {}]

----------------------------------------------------------------------------
(* The state machine *)

Init ==
    /\ source \in Files
    /\ cached = FALSE
    /\ cache = <<>>
    /\ reads = 0
    /\ ss = NoState
    /\ pc = "title"
    /\ err = ""
    /\ shown = <<>>
    /\ df = <<>>
    /\ df_filtered = <<>>
    /\ city_counts = <<>>
    /\ growth = <<>>
    /\ type_counts = <<>>
    /\ fig_box_type = <<>>
    /\ makes_counts = <<>>

results == <<df_filtered, city_counts, growth, type_counts, fig_box_type, makes_counts>>
process == <<source, cached, cache, reads>>

\* st.set_page_config, st.title
Title ==
    /\ pc = "title"
    /\ shown' = Append(shown, "title")
    /\ pc' = "load"
    /\ UNCHANGED <<process, ss, err, df, results>>

\* load_data without st.cache_data: every run reads the file
LoadData_Uncached ==
    /\ pc = "load"
    /\ reads' = reads + 1
    /\ IF source.readable
       THEN /\ cached' = TRUE
            /\ cache' = load_data(source.rows)
            /\ df' = load_data(source.rows)
            /\ pc' = "sidebar"
            /\ UNCHANGED <<err, shown>>
       ELSE /\ pc' = "error"
            /\ err' = "FileNotFoundError"
            /\ shown' = Append(shown, "exception")
            /\ UNCHANGED <<cached, cache, df>>
    /\ UNCHANGED <<source, ss, results>>

\* df = load_data(path), behind st.cache_data
LoadData ==
    /\ pc = "load"
    /\ IF cached
       THEN /\ df' = cache
            /\ pc' = "sidebar"
            /\ UNCHANGED <<cached, cache, reads, err, shown>>
       ELSE /\ reads' = reads + 1
            /\ IF source.readable
               THEN /\ cached' = TRUE
                    /\ cache' = load_data(source.rows)
                    /\ df' = load_data(source.rows)
                    /\ pc' = "sidebar"
                    /\ UNCHANGED <<err, shown>>
               ELSE /\ pc' = "error"
                    /\ err' = "FileNotFoundError"
                    /\ shown' = Append(shown, "exception")
                    /\ UNCHANGED <<cached, cache, df>>
    /\ UNCHANGED <<source, ss, results>>

\* the sidebar: its header, min_year and max_year, the four widgets
Sidebar ==
    /\ pc = "sidebar"
    /\ IF df = <<>>
       THEN \* int(NaN): the minimum of an empty column is NaN
            /\ pc' = "error"
            /\ err' = "ValueError"
            /\ shown' = shown \o <<"sidebar_header", "exception">>
            /\ UNCHANGED ss
       ELSE /\ ss' = IF ss.set THEN ss ELSE Defaults(df)
            /\ shown' = shown \o <<"sidebar_header", "widgets">>
            /\ pc' = "filter"
            /\ UNCHANGED err
    /\ UNCHANGED <<process, df, results>>

Filter ==
    /\ pc = "filter"
    /\ df_filtered' = ApplyFilter(df, ss)
    /\ pc' = "viz1"
    /\ UNCHANGED <<process, ss, err, shown, df, city_counts, growth,
                   type_counts, fig_box_type, makes_counts>>

Viz1 ==
    /\ pc = "viz1"
    /\ city_counts' = CityCounts(df_filtered)
    /\ shown' = Append(shown, "fig_bar_cities")
    /\ pc' = "viz2"
    /\ UNCHANGED <<process, ss, err, df, df_filtered, growth, type_counts,
                   fig_box_type, makes_counts>>

Viz2 ==
    /\ pc = "viz2"
    /\ growth' = Growth(df_filtered)
    /\ shown' = Append(shown, "fig_growth")
    /\ pc' = "viz3"
    /\ UNCHANGED <<process, ss, err, df, df_filtered, city_counts, type_counts,
                   fig_box_type, makes_counts>>

Viz3 ==
    /\ pc = "viz3"
    /\ type_counts' = TypeCounts(df_filtered)
    /\ shown' = Append(shown, "fig_pie_type")
    /\ pc' = "viz9"
    /\ UNCHANGED <<process, ss, err, df, df_filtered, city_counts, growth,
                   fig_box_type, makes_counts>>

Viz9 ==
    /\ pc = "viz9"
    /\ IF SortRaises(Type(df_type_price(df_filtered)))
       THEN /\ pc' = "error"
            /\ err' = "TypeError"
            /\ shown' = Append(shown, "exception")
            /\ UNCHANGED fig_box_type
       ELSE /\ fig_box_type' = BoxTraces(df_filtered)
            /\ shown' = Append(shown, "fig_box_type")
            /\ pc' = "viz4"
            /\ UNCHANGED err
    /\ UNCHANGED <<process, ss, df, df_filtered, city_counts, growth,
                   type_counts, makes_counts>>

\* the top 10 makes taken over df, not over df_filtered
Viz4_Unfiltered ==
    /\ pc = "viz4"
    /\ makes_counts' = MakesCounts(df)
    /\ shown' = shown \o <<"fig_bar_makes", "footer">>
    /\ pc' = "done"
    /\ UNCHANGED <<process, ss, err, df, df_filtered, city_counts, growth,
                   type_counts, fig_box_type>>

Viz4 ==
    /\ pc = "viz4"
    /\ makes_counts' = MakesCounts(df_filtered)
    /\ shown' = shown \o <<"fig_bar_makes", "footer">>
    /\ pc' = "done"
    /\ UNCHANGED <<process, ss, err, df, df_filtered, city_counts, growth,
                   type_counts, fig_box_type>>

\* a new run of the script: its namespace and its page start empty
NewRun(s) ==
    /\ ss' = s
    /\ pc' = "title"
    /\ err' = ""
    /\ shown' = <<>>
    /\ df' = <<>>
    /\ df_filtered' = <<>>
    /\ city_counts' = <<>>
    /\ growth' = <<>>
    /\ type_counts' = <<>>
    /\ fig_box_type' = <<>>
    /\ makes_counts' = <<>>
    /\ UNCHANGED process

Toggle(S, x) == IF x \in S THEN S \ {x} ELSE S \cup {x}

\* the user reruns the script, after a run that ended or one that raised
Rerun ==
    /\ pc \in {"done", "error"}
    /\ cached \/ reads < MaxReads
    /\ NewRun(ss)

\* the user drags the year slider
SlideYears ==
    /\ pc = "done"
    /\ \E lo \in SetMin(Range(Year(df)))..SetMax(Range(Year(df))) :
         \E hi \in lo..SetMax(Range(Year(df))) :
            /\ <<lo, hi>> # ss.tahun_range
            /\ NewRun([ss EXCEPT !.tahun_range = <<lo, hi>>])

ToggleType ==
    /\ pc = "done"
    /\ \E t \in all_types(df) :
         NewRun([ss EXCEPT !.selected_types = Toggle(@, t)])

ToggleCity ==
    /\ pc = "done"
    /\ \E c \in all_cities(df) \cap ClickCities :
         NewRun([ss EXCEPT !.selected_cities = Toggle(@, c)])

ToggleMake ==
    /\ pc = "done"
    /\ \E m \in all_makes(df) \cap ClickMakes :
         NewRun([ss EXCEPT !.selected_makes = Toggle(@, m)])

Next ==
    \/ Title
    \/ LoadData
    \/ Sidebar
    \/ Filter
    \/ Viz1
    \/ Viz2
    \/ Viz3
    \/ Viz9
    \/ Viz4
    \/ Rerun
    \/ SlideYears
    \/ ToggleType
    \/ ToggleCity
    \/ ToggleMake

Spec == Init /\ [][Next]_vars

\* a section of the script
ScriptStep ==
    Title \/ LoadData \/ Sidebar \/ Filter \/ Viz1 \/ Viz2 \/ Viz3 \/ Viz9 \/ Viz4

----------------------------------------------------------------------------
(* Positions of a run *)

AfterFilter == {"viz1", "viz2", "viz3", "viz9", "viz4", "done"}
AfterViz1 == {"viz2", "viz3", "viz9", "viz4", "done"}
AfterViz2 == {"viz3", "viz9", "viz4", "done"}
AfterViz3 == {"viz9", "viz4", "done"}
AfterViz9 == {"viz4", "done"}

\* the run has ended, by reaching the last line or by an exception
Ended == pc \in {"done", "error"}

RECURSIVE SumCounts(_)
SumCounts(s) == IF s = <<>> THEN 0 ELSE s[1][2] + SumCounts(Tail(s))

Present(col) == Range(col) \ {NaN}

Min(a, b) == IF a < b THEN a ELSE b

----------------------------------------------------------------------------
(* C1 *)

\* the predicate of the filter, in one pass
Satisfies(r, s) ==
    /\ s.tahun_range[1] <= r.year
    /\ r.year <= s.tahun_range[2]
    /\ r.type \in s.selected_types
    /\ (s.selected_cities = {} \/ r.city \in s.selected_cities)
    /\ (s.selected_makes = {} \/ r.make \in s.selected_makes)

\* C1: once computed, df_filtered is the subsequence of df, in df's order, of
\* exactly the records with min <= year <= max, type among the selected types,
\* city among the selected cities when any is selected, make among the selected
\* makes when any is selected; no selected type gives the empty view, and
\* min = max gives the records of that one year that pass the other tests.
C1_FilterExact ==
    pc \in AfterFilter =>
        /\ ss.tahun_range[1] <= ss.tahun_range[2]
        /\ df_filtered = SelectSeq(df, LAMBDA r : Satisfies(r, ss))
        /\ (ss.selected_types = {} => df_filtered = <<>>)
        /\ (ss.tahun_range[1] = ss.tahun_range[2] =>
              df_filtered = SelectSeq(df, LAMBDA r :
                  /\ r.year = ss.tahun_range[1]
                  /\ Satisfies(r, [ss EXCEPT !.tahun_range = <<r.year, r.year>>])))

\* a single year and a city are selected, and the view keeps some records of
\* df and drops others
C1_Witness ==
    /\ pc = "done"
    /\ ss.tahun_range[1] = ss.tahun_range[2]
    /\ ss.selected_cities # {}
    /\ df_filtered # <<>>
    /\ Len(df_filtered) < Len(df)
    /\ \E i \in 1..Len(df) : df[i].year # ss.tahun_range[1]

----------------------------------------------------------------------------
(* C2 *)

ZeroValidRows == source.readable /\ load_data(source.rows) = <<>>

\* the exceptions load_data raises
LoadErrors == {"FileNotFoundError"}

\* C2: when the file holds no row with a valid Model Year, the run ends with
\* an error raised by the load, and nothing of the dashboard is on the page.
C2_LoadErrorNoPartial ==
    (ZeroValidRows /\ Ended) =>
        /\ pc = "error"
        /\ err \in LoadErrors
        /\ Range(shown) \subseteq {"exception"}

----------------------------------------------------------------------------
(* C3 *)

\* the view has been computed in this run: the widgets are on the page and
\* the filter has run
ViewComputed == "widgets" \in Range(shown) /\ pc # "filter"

----------------------------------------------------------------------------
(* C4 *)

IsTopN(res, col, n, size) ==
    /\ Len(res) <= n
    /\ Len(res) = Min(n, Cardinality(Present(col)))
    /\ \A i \in 1..Len(res) :
          /\ res[i][1] # NaN
          /\ res[i][2] = Cardinality({ k \in 1..Len(col) : col[k] = res[i][1] })
    /\ \A i, j \in 1..Len(res) : i # j => res[i][1] # res[j][1]
    /\ \A i \in 1..Len(res) - 1 : res[i][2] >= res[i + 1][2]
    /\ \A v \in Present(col) \ Range(Index(res)) :
          \A i \in 1..Len(res) :
              Cardinality({ k \in 1..Len(col) : col[k] = v }) <= res[i][2]
    /\ SumCounts(res) <= size

\* C4: city_counts and makes_counts hold at most 10 entries, each with the
\* number of view records of that city (make), missing values not counted, in
\* descending order of count; no city (make) left out has a greater count than
\* one returned; the counts sum to at most the size of the view.
C4_TopN ==
    /\ pc \in AfterViz1 =>
          IsTopN(city_counts, City(df_filtered), TopN, Len(df_filtered))
    /\ pc = "done" =>
          IsTopN(makes_counts, Make(df_filtered), TopN, Len(df_filtered))

\* the view holds more than 10 cities and a record without city; the counts
\* returned are not all equal
C4_Witness ==
    /\ pc = "done"
    /\ Cardinality(Present(City(df_filtered))) > TopN
    /\ Cardinality(Present(Make(df_filtered))) > TopN
    /\ NaN \in Range(City(df_filtered))
    /\ Len(city_counts) = TopN
    /\ city_counts[1][2] > city_counts[TopN][2]

----------------------------------------------------------------------------
(* C5 *)

\* C5: growth holds one entry per (year, city) that some view record with a
\* city of city_counts (the top 10 of this view) has, with the number of such
\* records; no other city, no zero count.
C5_Growth ==
    pc \in AfterViz2 =>
        LET top == Range(Index(city_counts))
            pairs == { <<df_filtered[i].year, df_filtered[i].city>> : i \in
                         { k \in 1..Len(df_filtered) : df_filtered[k].city \in top } }
        IN  /\ { <<growth[k].year, growth[k].city>> : k \in 1..Len(growth) } = pairs
            /\ Len(growth) = Cardinality(pairs)
            /\ \A k \in 1..Len(growth) :
                  /\ growth[k].city \in top
                  /\ growth[k].count > 0
                  /\ growth[k].count = Cardinality({ i \in 1..Len(df_filtered) :
                         /\ df_filtered[i].year = growth[k].year
                         /\ df_filtered[i].city = growth[k].city })

\* the view holds a city outside its top 10, and a (year, city) pair twice
C5_Witness ==
    /\ pc = "done"
    /\ Present(City(df_filtered)) \ Range(Index(city_counts)) # {}
    /\ \E k \in 1..Len(growth) : growth[k].count >= 2
    /\ Len(df_filtered) < Len(df)

----------------------------------------------------------------------------
(* C6 *)

\* C6: fig_box_type holds one trace per type that has a view record with a
\* price, the traces in ascending order of type; a trace holds the prices of
\* the view's records of its type that have one, in view order.
C6_NumericGroups ==
    pc \in AfterViz9 =>
        /\ { fig_box_type[k].name : k \in 1..Len(fig_box_type) }
              = { df_filtered[i].type : i \in
                    { j \in 1..Len(df_filtered) : df_filtered[j].msrp # NaN } }
        /\ \A k \in 1..Len(fig_box_type) - 1 :
              fig_box_type[k].name < fig_box_type[k + 1].name
        /\ \A k \in 1..Len(fig_box_type) :
              LET rows == SelectSeq(df_filtered, LAMBDA r :
                              r.type = fig_box_type[k].name /\ r.msrp # NaN)
              IN  /\ rows # <<>>
                  /\ fig_box_type[k].y = [i \in 1..Len(rows) |-> rows[i].msrp]

\* two traces, of a view whose first priced record is of the greater type,
\* with a record without price
C6_Witness ==
    /\ pc = "done"
    /\ Len(fig_box_type) = 2
    /\ df_type_price(df_filtered)[1].type = 2
    /\ Len(fig_box_type[1].y) >= 2
    /\ \E i \in 1..Len(df_filtered) : df_filtered[i].msrp = NaN

----------------------------------------------------------------------------
(* C7 *)

\* C7: type_counts holds each type of the view once, with the number of view
\* records of that type; the counts sum to the number of view records that
\* have a type, whether or not they have a price or a range.
C7_Distribution ==
    pc \in AfterViz3 =>
        /\ Range(Index(type_counts)) = Present(Type(df_filtered))
        /\ Len(type_counts) = Cardinality(Present(Type(df_filtered)))
        /\ \A k \in 1..Len(type_counts) :
              type_counts[k][2] = Cardinality({ i \in 1..Len(df_filtered) :
                                      df_filtered[i].type = type_counts[k][1] })
        /\ SumCounts(type_counts)
              = Cardinality({ i \in 1..Len(df_filtered) : df_filtered[i].type # NaN })

\* both types are counted, in a view with a record without price and one
\* without range
C7_Witness ==
    /\ pc = "done"
    /\ Len(type_counts) = 2
    /\ \E i \in 1..Len(df_filtered) : df_filtered[i].msrp = NaN
    /\ \E i \in 1..Len(df_filtered) : df_filtered[i].range = NaN

----------------------------------------------------------------------------
(* C8 *)

\* the places in the file of the rows whose Model Year is a number
ValidRows == { i \in 1..Len(source.rows) : IsDigits(source.rows[i].year) }

\* C8: the loaded dataset holds the rows of the file whose Model Year is a
\* number, in the file's order, and no other; a price or range that is missing
\* or unparseable drops no row; every record of df and of df_filtered has a
\* year.
C8_Loader ==
    /\ cached =>
          LET valid == ValidRows
              place == SortedSet(valid)
          IN  /\ Len(cache) = Cardinality(valid)
              /\ \A k \in 1..Len(cache) :
                    LET row == source.rows[place[k]]
                    IN  /\ cache[k].year = Decimal(row.year)
                        /\ cache[k].type = row.type
                        /\ cache[k].city = row.city
                        /\ cache[k].make = row.make
                        /\ cache[k].msrp = ToNumeric(row.msrp)
                        /\ cache[k].range = ToNumeric(row.range)
    /\ \A i \in 1..Len(df) : df[i].year # NaN
    /\ \A i \in 1..Len(df_filtered) : df_filtered[i].year # NaN

\* rows were dropped for their year, and rows without price and without range
\* were kept and are in the view
C8_Witness ==
    /\ pc = "done"
    /\ Len(df) < Len(source.rows)
    /\ \E i \in 1..Len(source.rows) : source.rows[i].year = <<>>
    /\ \E i \in 1..Len(source.rows) :
          ~IsDigits(source.rows[i].year) /\ source.rows[i].year # <<>>
    /\ \E i \in 1..Len(df_filtered) : df_filtered[i].msrp = NaN
    /\ \E i \in 1..Len(df_filtered) : df_filtered[i].range = NaN

----------------------------------------------------------------------------
(* C9 *)

\* C9: once load_data has returned, the file has been read once and is never
\* read again; the cached dataset is what the loader made of the file and
\* never changes, and df of every later run is that dataset.
C9_ReadOnce ==
    /\ [](cached =>
            /\ reads = 1
            /\ cache = load_data(source.rows)
            /\ (pc \notin {"title", "load"} => df = cache))
    /\ [][cached => (cached' /\ cache' = cache /\ reads' = reads)]_vars
    /\ [][source' = source]_vars

\* a run ended after the filters were changed, on the dataset read once
C9_Witness ==
    /\ pc = "done"
    /\ cached
    /\ reads = 1
    /\ ss # Defaults(df)
    /\ ss.selected_makes # {}
    /\ df_filtered # <<>>

----------------------------------------------------------------------------
(* C10 *)

\* C10: when a run has ended, every result is what the aggregation gives on
\* the view of the loaded dataset under the current filter state.
C10_FreshResults ==
    pc = "done" =>
        LET view == ApplyFilter(load_data(source.rows), ss)
        IN  /\ df_filtered = view
            /\ city_counts = CityCounts(view)
            /\ growth = Growth(view)
            /\ type_counts = TypeCounts(view)
            /\ fig_box_type = BoxTraces(view)
            /\ makes_counts = MakesCounts(view)

\* a run ended after the year range and the types were changed, with a view
\* whose top 10 cities are not those of the dataset
C10_Witness ==
    /\ pc = "done"
    /\ ss.tahun_range # Defaults(df).tahun_range
    /\ ss.selected_types # Defaults(df).selected_types
    /\ df_filtered # <<>>
    /\ Range(Index(city_counts)) # Range(Index(CityCounts(df)))

====
